---- MODULE Spec2Model ----
\* Header interpretation and frame iteration over an AF_PACKET ring
\* (afpacket/cgo/types.go).  The shared ring region is a byte array; the
\* header types overlay it at the offsets the Go compiler gives the structs
\* on a 64-bit little-endian build, which are the offsets of the kernel ABI.
EXTENDS Integers, Sequences, FiniteSets, TLC

\* ------------------------------------------------------------------ bounds
\* Largest packet count of a modelled block.
MaxPkts == 3
\* Most calls of next() on one view.
MaxCalls == 9
\* Longest payload handed to insertVlanHeader on its own.
MaxLen == 16
\* Slots of the ring in the kernel/consumer protocol.
NSlots == 2
\* Largest argument handed to tpAlign on its own.
MaxAlignArg == 100

\* ------------------------------------------------------- program constants
VlanHlen == 4
EthAlen == 6
StatusVlanValid == 16
tpacketAlignment == 16
\* unsafe.Sizeof of the three Go structs, 64-bit build.
sizeofV1Hdr == 32
sizeofV2Hdr == 32
sizeofV3Hdr == 32
\* C.sizeof_struct_tpacket_hdr, tpacket2_hdr, tpacket3_hdr.
tpV1HdrSize == 32
tpV2HdrSize == 32
tpV3HdrSize == 48
\* unsafe.Sizeof(TpPacket{}): the packet-within-block header of the pure-Go
\* build, the same 48 bytes as struct tpacket3_hdr.
sizeofTpPacket == 48

\* Field offsets of V1header.
V1_Status == 0
V1_Len == 8
V1_Snaplen == 12
V1_Mac == 16
V1_Sec == 20
V1_Usec == 24
\* Field offsets of V2header.
V2_Status == 0
V2_Len == 4
V2_Snaplen == 8
V2_Mac == 12
V2_Sec == 16
V2_Nsec == 20
V2_VlanTci == 24
\* Field offsets of TpPacket.
P_TpNextOffset == 0
P_Tp_sec == 4
P_Tp_nsec == 8
P_Tp_snaplen == 12
P_Tp_len == 16
P_Tp_status == 20
P_Tp_mac == 24
P_Tp_hv1 == 28
\* Field offset of TpacketHdrVariant1.TpVlanTci.
HV1_TpVlanTci == 4
\* Field offsets of TpBlock and of TpacketHdrV1.
B_Hdr == 8
BH_BlockStatus == 0
BH_NumPkts == 4
BH_OffsetToFirstPkt == 8
\* Field offset of SockAddrLL.Ifindex.
LL_Ifindex == 4
\* Offset of the field `packet` in the wrapper TpV3Hdr, and pointer size.
W_packet == 16
PtrSize == 8

Variants == {"V1header", "V2header", "V3header", "TpV1Hdr", "TpV2Hdr", "TpV3Hdr"}
VariantA == {"V1header", "TpV1Hdr"}
VariantB == {"V2header", "TpV2Hdr"}
VariantC == {"V3header", "TpV3Hdr"}

\* ------------------------------------------------------------ raw memory
\* The ring is the sequence of its bytes; the byte at address a is m[a + 1].
Byte(m, a) == m[a + 1]
\* Little-endian loads, as the struct field reads compile to.
U16(m, a) == Byte(m, a) + 256 * Byte(m, a + 1)
U32(m, a) == U16(m, a) + 65536 * U16(m, a + 2)
U64(m, a) == IF U32(m, a + 4) = 0 THEN U32(m, a)
             ELSE U32(m, a) + (65536 * 65536) * U32(m, a + 4)

\* Little-endian bytes of v, n of them (n <= 4).
LE(v, n) == [k \in 1..n |-> (v \div (256 ^ (k - 1))) % 256]
\* Store of a byte sequence at address a.
Put(m, a, bytes) ==
    [i \in 1..Len(m) |-> IF i > a /\ i <= a + Len(bytes) THEN bytes[i - a] ELSE m[i]]
PutU32(m, a, v) == Put(m, a, LE(v, 4))
PutU64(m, a, v) == Put(m, a, LE(v, 4) \o <<0, 0, 0, 0>>)

\* time.Unix(sec, nsec): nsec outside [0, 1e9) is carried into the seconds.
timeUnix(sec, nsec) ==
    [sec |-> sec + (nsec \div 1000000000), nsec |-> nsec % 1000000000]

\* tpAlign rounding down instead of up.
tpAlign_floor(x) == x - (x % tpacketAlignment)
tpAlign(x) ==
    LET u == x + tpacketAlignment - 1
    IN  u - (u % tpacketAlignment)

\* ------------------------------------------------------------------ slices
\* A Go slice header.  A slice made over the ring has its bytes in the ring;
\* a slice built by make/append lives on the heap and carries its bytes.
HeapData == -1
makeSlice(start, length) == [Data |-> start, Len |-> length, Cap |-> length]
Elems(m, s) ==
    IF s.Data = HeapData THEN s.heap
    ELSE [i \in 1..s.Len |-> Byte(m, s.Data + i - 1)]
\* The run-time panic of a slice expression whose bound exceeds the capacity.
Panic == [panic |-> "slice bounds out of range"]
IsPanic(r) == "panic" \in DOMAIN r

\* insertVlanHeader writing the TCI low byte first.
insertVlanHeader_swapped(m, data, vlanTCI, addVLANHeader) ==
    IF vlanTCI = 0 \/ ~addVLANHeader THEN data
    ELSE IF EthAlen * 2 > data.Cap \/ EthAlen * 2 > data.Len THEN Panic
    ELSE LET src == [i \in 1..(EthAlen * 2) |-> Byte(m, data.Data + i - 1)]
             eth == src \o <<129, 0, vlanTCI % 256, (vlanTCI \div 256) % 256>>
             out == eth \o SubSeq(Elems(m, data), EthAlen * 2 + 1, data.Len)
         IN  [Data |-> HeapData, Len |-> Len(out), Cap |-> data.Len + VlanHlen,
              heap |-> out]
\* insertVlanHeader returning early only when both conditions hold.
insertVlanHeader_and(m, data, vlanTCI, addVLANHeader) ==
    IF vlanTCI = 0 /\ ~addVLANHeader THEN data
    ELSE IF EthAlen * 2 > data.Cap \/ EthAlen * 2 > data.Len THEN Panic
    ELSE LET src == [i \in 1..(EthAlen * 2) |-> Byte(m, data.Data + i - 1)]
             eth == src \o <<129, 0, (vlanTCI \div 256) % 256, vlanTCI % 256>>
             out == eth \o SubSeq(Elems(m, data), EthAlen * 2 + 1, data.Len)
         IN  [Data |-> HeapData, Len |-> Len(out), Cap |-> data.Len + VlanHlen,
              heap |-> out]
insertVlanHeader(m, data, vlanTCI, addVLANHeader) ==
    IF vlanTCI = 0 \/ ~addVLANHeader THEN data
    ELSE IF EthAlen * 2 > data.Cap \/ EthAlen * 2 > data.Len THEN Panic
    ELSE LET src == [i \in 1..(EthAlen * 2) |-> Byte(m, data.Data + i - 1)]
             eth == src \o <<129, 0, (vlanTCI \div 256) % 256, vlanTCI % 256>>
             out == eth \o SubSeq(Elems(m, data), EthAlen * 2 + 1, data.Len)
         IN  [Data |-> HeapData, Len |-> Len(out), Cap |-> data.Len + VlanHlen,
              heap |-> out]

\* The counter `used` is a uint32.  The model holds its 32 bits as the int32
\* of the same bit pattern: 0 .. 2^31 - 1 stand for themselves, a negative u
\* stands for 2^32 + u (so -1 is 4294967295).
\* w.used++: the increment wraps from 4294967295 (-1) to 0.
Inc32(u) == IF u = 2147483647 THEN (-2147483647) - 1 ELSE u + 1
\* used >= n, compared as uint32, n a loaded value below 2^31.
GeU32(u, n) == IF u < 0 THEN TRUE ELSE u >= n
\* used > n, compared as uint32.
GtU32(u, n) == IF u < 0 THEN TRUE ELSE u > n

\* int32 load (SockAddrLL.Ifindex).
I32(m, a) ==
    U16(m, a) + 65536 * Byte(m, a + 2)
    + 16777216 * (IF Byte(m, a + 3) >= 128 THEN Byte(m, a + 3) - 256 ELSE Byte(m, a + 3))

\* ------------------------------------------------- V1header (pure Go, A)
\* h is the address of the frame header; a method that stores returns the
\* ring after the store, next returns the view after the call and the result.
V1header_getVLAN(m, h) == -1
V1header_getStatus(m, h) == U64(m, h + V1_Status)
V1header_clearStatus(m, h) == PutU64(m, h + V1_Status, 0)
\* V1header.getTime taking the microseconds for nanoseconds.
V1header_getTime_micro(m, h) == timeUnix(U32(m, h + V1_Sec), U32(m, h + V1_Usec))
V1header_getTime(m, h) == timeUnix(U32(m, h + V1_Sec), U32(m, h + V1_Usec) * 1000)
V1header_getData(m, h, addVLANHeader) ==
    makeSlice(h + U16(m, h + V1_Mac), U32(m, h + V1_Snaplen))
V1header_getLength(m, h) == U32(m, h + V1_Len)
V1header_getIfaceIndex(m, h) == I32(m, h + tpAlign(sizeofV1Hdr) + LL_Ifindex)
V1header_next(m, h) == [h |-> h, ret |-> FALSE]

\* ------------------------------------------------- V2header (pure Go, B)
V2header_getVLAN(m, h) == -1
V2header_getStatus(m, h) == U32(m, h + V2_Status)
\* V2header.clearStatus storing a 64-bit zero, as V1header's status needs.
V2header_clearStatus_wide(m, h) == PutU64(m, h + V2_Status, 0)
V2header_clearStatus(m, h) == PutU32(m, h + V2_Status, 0)
V2header_getTime(m, h) == timeUnix(U32(m, h + V2_Sec), U32(m, h + V2_Nsec))
V2header_getData(m, h, addVLANHeader) ==
    LET data == makeSlice(h + U16(m, h + V2_Mac), U32(m, h + V2_Snaplen))
    IN  insertVlanHeader(m, data, U16(m, h + V2_VlanTci), addVLANHeader)
V2header_getLength(m, h) == U32(m, h + V2_Len)
V2header_getIfaceIndex(m, h) == I32(m, h + tpAlign(sizeofV2Hdr) + LL_Ifindex)
\* V2header.next reporting one more packet.
V2header_next_true(m, h) == [h |-> h, ret |-> TRUE]
V2header_next(m, h) == [h |-> h, ret |-> FALSE]

\* ------------------------------------------------------ TpV1Hdr (cgo, A)
TpV1Hdr_getVLAN(m, h) == -1
TpV1Hdr_getStatus(m, h) == U64(m, h + V1_Status)
TpV1Hdr_clearStatus(m, h) == PutU64(m, h + V1_Status, 0)
TpV1Hdr_getTime(m, h) == timeUnix(U32(m, h + V1_Sec), U32(m, h + V1_Usec) * 1000)
TpV1Hdr_getData(m, h, addVLANHeader) ==
    makeSlice(h + U16(m, h + V1_Mac), U32(m, h + V1_Snaplen))
TpV1Hdr_getLength(m, h) == U32(m, h + V1_Len)
TpV1Hdr_getIfaceIndex(m, h) == I32(m, h + tpAlign(tpV1HdrSize) + LL_Ifindex)
TpV1Hdr_next(m, h) == [h |-> h, ret |-> FALSE]

\* ------------------------------------------------------ TpV2Hdr (cgo, B)
TpV2Hdr_getVLAN(m, h) == -1
TpV2Hdr_getStatus(m, h) == U32(m, h + V2_Status)
TpV2Hdr_clearStatus(m, h) == PutU32(m, h + V2_Status, 0)
TpV2Hdr_getTime(m, h) == timeUnix(U32(m, h + V2_Sec), U32(m, h + V2_Nsec))
TpV2Hdr_getData(m, h, addVLANHeader) ==
    LET data == makeSlice(h + U16(m, h + V2_Mac), U32(m, h + V2_Snaplen))
    IN  insertVlanHeader(m, data, U16(m, h + V2_VlanTci), addVLANHeader)
TpV2Hdr_getLength(m, h) == U32(m, h + V2_Len)
TpV2Hdr_getIfaceIndex(m, h) == I32(m, h + tpAlign(tpV2HdrSize) + LL_Ifindex)
TpV2Hdr_next(m, h) == [h |-> h, ret |-> FALSE]

\* ------------------------------------------------- V3header (pure Go, C)
\* w = [Block, Blockhdr, Packet, used]: three addresses and the cursor.
initV3Wrapper(m, block) ==
    LET blockhdr == block + B_Hdr
    IN  [Block |-> block, Blockhdr |-> blockhdr,
         Packet |-> block + U32(m, blockhdr + BH_OffsetToFirstPkt), used |-> 0]
V3header_getVLAN(m, w) ==
    IF (U32(m, w.Packet + P_Tp_status) \div StatusVlanValid) % 2 # 0
    THEN U32(m, w.Packet + P_Tp_hv1 + HV1_TpVlanTci) % 4096
    ELSE -1
\* V3header.getStatus reading the current packet's status, not the block's.
V3header_getStatus_packet(m, w) == U32(m, w.Packet + P_Tp_status)
V3header_getStatus(m, w) == U32(m, w.Blockhdr + BH_BlockStatus)
\* V3header.clearStatus storing through Block instead of Blockhdr.
V3header_clearStatus_block(m, w) == PutU32(m, w.Block + BH_BlockStatus, 0)
V3header_clearStatus(m, w) == PutU32(m, w.Blockhdr + BH_BlockStatus, 0)
V3header_getTime(m, w) ==
    timeUnix(U32(m, w.Packet + P_Tp_sec), U32(m, w.Packet + P_Tp_nsec))
V3header_getData(m, w, addVLANHeader) ==
    LET data == makeSlice(w.Packet + U16(m, w.Packet + P_Tp_mac),
                          U32(m, w.Packet + P_Tp_snaplen))
    IN  insertVlanHeader(m, data, U32(m, w.Packet + P_Tp_hv1 + HV1_TpVlanTci),
                         addVLANHeader)
V3header_getLength(m, w) == U32(m, w.Packet + P_Tp_len)
V3header_getIfaceIndex(m, w) == I32(m, w.Packet + tpAlign(sizeofV3Hdr) + LL_Ifindex)
\* V3header.next with the bound tested by > instead of >=.
V3header_next_offByOne(m, w) ==
    LET used1 == Inc32(w.used)
    IN  IF GtU32(used1, U32(m, w.Blockhdr + BH_NumPkts))
        THEN [h |-> [w EXCEPT !.used = used1], ret |-> FALSE]
        ELSE LET off == U32(m, w.Packet + P_TpNextOffset)
                 next == IF off # 0 THEN w.Packet + off
                         ELSE w.Packet + tpAlign(U32(m, w.Packet + P_Tp_snaplen)
                                                 + U16(m, w.Packet + P_Tp_mac))
             IN  [h |-> [w EXCEPT !.used = used1, !.Packet = next], ret |-> TRUE]
\* V3header.next counting a packet twice.
V3header_next_skip(m, w) ==
    LET used1 == Inc32(Inc32(w.used))
    IN  IF GeU32(used1, U32(m, w.Blockhdr + BH_NumPkts))
        THEN [h |-> [w EXCEPT !.used = used1], ret |-> FALSE]
        ELSE LET off == U32(m, w.Packet + P_TpNextOffset)
                 next == IF off # 0 THEN w.Packet + off
                         ELSE w.Packet + tpAlign(U32(m, w.Packet + P_Tp_snaplen)
                                                 + U16(m, w.Packet + P_Tp_mac))
             IN  [h |-> [w EXCEPT !.used = used1, !.Packet = next], ret |-> TRUE]
V3header_next(m, w) ==
    LET used1 == Inc32(w.used)
    IN  IF GeU32(used1, U32(m, w.Blockhdr + BH_NumPkts))
        THEN [h |-> [w EXCEPT !.used = used1], ret |-> FALSE]
        ELSE LET off == U32(m, w.Packet + P_TpNextOffset)
                 next == IF off # 0 THEN w.Packet + off
                         ELSE w.Packet + tpAlign(U32(m, w.Packet + P_Tp_snaplen)
                                                 + U16(m, w.Packet + P_Tp_mac))
             IN  [h |-> [w EXCEPT !.used = used1, !.Packet = next], ret |-> TRUE]

\* ------------------------------------------------------ TpV3Hdr (cgo, C)
\* w = [block, blockhdr, packet, used].  hi is the upper half of the 64-bit
\* address the ring is mapped at; addresses in w are the lower halves.
TpV3Hdr_initV3Wrapper(m, block) ==
    LET blockhdr == block + B_Hdr
    IN  [block |-> block, blockhdr |-> blockhdr,
         packet |-> block + U32(m, blockhdr + BH_OffsetToFirstPkt), used |-> 0]
\* A 32-bit load from the wrapper struct itself at byte offset off >= W_packet:
\* the pointer field `packet` (8 bytes, little-endian) and then `used`.
WrapperU32(w, hi, off) ==
    CASE off = W_packet -> w.packet
      [] off = W_packet + 4 -> hi
      [] off = W_packet + PtrSize -> w.used
      [] OTHER -> 0
\* hv1 := (*HeaderVariant1)(unsafe.Pointer(&w.packet)) overlays the wrapper's
\* own field, not the packet header it points to.
TpV3Hdr_hv1_Vlan_tci(w, hi) == WrapperU32(w, hi, W_packet + HV1_TpVlanTci)
TpV3Hdr_getVLAN(m, w, hi) ==
    IF (U32(m, w.packet + P_Tp_status) \div StatusVlanValid) % 2 # 0
    THEN TpV3Hdr_hv1_Vlan_tci(w, hi) % 4096
    ELSE -1
TpV3Hdr_getStatus(m, w) == U32(m, w.blockhdr + BH_BlockStatus)
TpV3Hdr_clearStatus(m, w) == PutU32(m, w.blockhdr + BH_BlockStatus, 0)
TpV3Hdr_getTime(m, w) ==
    timeUnix(U32(m, w.packet + P_Tp_sec), U32(m, w.packet + P_Tp_nsec))
TpV3Hdr_getData(m, w, hi, addVLANHeader) ==
    LET data == makeSlice(w.packet + U16(m, w.packet + P_Tp_mac),
                          U32(m, w.packet + P_Tp_snaplen))
    IN  insertVlanHeader(m, data, TpV3Hdr_hv1_Vlan_tci(w, hi), addVLANHeader)
TpV3Hdr_getLength(m, w) == U32(m, w.packet + P_Tp_len)
TpV3Hdr_getIfaceIndex(m, w) == I32(m, w.packet + tpAlign(tpV3HdrSize) + LL_Ifindex)
\* TpV3Hdr.next ignoring the kernel's next-offset field.
TpV3Hdr_next_noOffset(m, w) ==
    LET used1 == Inc32(w.used)
    IN  IF GeU32(used1, U32(m, w.blockhdr + BH_NumPkts))
        THEN [h |-> [w EXCEPT !.used = used1], ret |-> FALSE]
        ELSE LET next == w.packet + tpAlign(U32(m, w.packet + P_Tp_snaplen)
                                            + U16(m, w.packet + P_Tp_mac))
             IN  [h |-> [w EXCEPT !.used = used1, !.packet = next], ret |-> TRUE]
TpV3Hdr_next(m, w) ==
    LET used1 == Inc32(w.used)
    IN  IF GeU32(used1, U32(m, w.blockhdr + BH_NumPkts))
        THEN [h |-> [w EXCEPT !.used = used1], ret |-> FALSE]
        ELSE LET off == U32(m, w.packet + P_TpNextOffset)
                 next == IF off # 0 THEN w.packet + off
                         ELSE w.packet + tpAlign(U32(m, w.packet + P_Tp_snaplen)
                                                 + U16(m, w.packet + P_Tp_mac))
             IN  [h |-> [w EXCEPT !.used = used1, !.packet = next], ret |-> TRUE]

\* ------------------------------------------------ what the kernel delivers
\* TP_STATUS_USER: the ready bit the kernel sets when it hands a slot over.
TpStatusUser == 1
\* Payload offsets the kernel chose, and the room each slot has.
FrameMac == sizeofV2Hdr + 20
PktMac == tpV3HdrSize + 20
FrameSize == FrameMac + MaxLen + 12
BlockSize == 48 + (MaxPkts + 1) * 96
SlotSize(v) == IF v \in VariantC THEN BlockSize ELSE FrameSize
ZeroMem(n) == [i \in 1..n |-> 0]
\* Payload bytes of packet k: distinct per packet and per position.
Payload(k, n) == [i \in 1..n |-> (k * 37 + i * 3) % 256]
\* struct sockaddr_ll with interface index ifindex.
SockAddrLLBytes(ifindex) ==
    LE(17, 2) \o LE(8, 2) \o LE(ifindex, 4) \o LE(1, 2) \o <<0, 6>>
    \o <<2, 0, 0, 0, 0, 1, 0, 0>>
\* A variant A frame at address a; status is left for the kernel's last store.
V1Frame(m, a, len, snaplen, sec, usec, k) ==
    LET hdr == <<0, 0, 0, 0, 0, 0, 0, 0>> \o LE(len, 4) \o LE(snaplen, 4)
               \o LE(FrameMac, 2) \o LE(FrameMac + 14, 2) \o LE(sec, 4) \o LE(usec, 4)
               \o <<0, 0, 0, 0>>
    IN  Put(Put(Put(m, a, hdr), a + 32, SockAddrLLBytes(2 + k)),
            a + FrameMac, Payload(k, snaplen))
\* A variant B frame at address a.
V2Frame(m, a, len, snaplen, sec, nsec, tci, k) ==
    LET hdr == <<0, 0, 0, 0>> \o LE(len, 4) \o LE(snaplen, 4)
               \o LE(FrameMac, 2) \o LE(FrameMac + 14, 2) \o LE(sec, 4) \o LE(nsec, 4)
               \o LE(tci, 2) \o LE(IF tci # 0 THEN 33024 ELSE 0, 2) \o <<0, 0, 0, 0>>
    IN  Put(Put(Put(m, a, hdr), a + 32, SockAddrLLBytes(2 + k)),
            a + FrameMac, Payload(k, snaplen))
\* The packets a block is made of: status, VLAN TCI, captured length, and the
\* next-offset field (0: the reader computes it by alignment).
PktProfiles ==
    { [status |-> 17, tci |-> 2748,  snaplen |-> 14, next |-> 0],
      [status |-> 1,  tci |-> 0,     snaplen |-> 14, next |-> 88],
      [status |-> 17, tci |-> 12293, snaplen |-> 4,  next |-> 0],
      [status |-> 1,  tci |-> 291,   snaplen |-> 12, next |-> 80] }
\* Distance from a packet header to the one after it.
Stride(p) == IF p.next # 0 THEN p.next ELSE tpAlign(p.snaplen + PktMac)
RECURSIVE PktOff(_, _)
PktOff(profs, k) == IF k = 1 THEN 48 ELSE PktOff(profs, k - 1) + Stride(profs[k - 1])
\* Packet k of a block at address a (header, address record, payload).
V3Packet(m, a, p, k) ==
    LET hdr == LE(p.next, 4) \o LE(1000 + k, 4) \o LE(1000 * k + 1, 4)
               \o LE(p.snaplen, 4) \o LE(p.snaplen + 10 * (k - 1), 4) \o LE(p.status, 4)
               \o LE(PktMac, 2) \o LE(PktMac + 14, 2)
               \o LE(4096 + k, 4) \o LE(p.tci, 4)
               \o LE(IF p.status >= StatusVlanValid THEN 33024 ELSE 0, 2) \o <<0, 0>>
               \o <<0, 0, 0, 0, 0, 0, 0, 0>>
    IN  Put(Put(Put(m, a, hdr), a + 48, SockAddrLLBytes(2 + k)),
            a + PktMac, Payload(k, p.snaplen))
RECURSIVE V3Packets(_, _, _, _)
V3Packets(m, a, profs, k) ==
    IF k > Len(profs) THEN m
    ELSE V3Packets(V3Packet(m, a + PktOff(profs, k), profs[k], k), a, profs, k + 1)
\* A variant C block at address a holding the packets profs; the block status
\* is left for the kernel's last store.
V3Block(m, a, profs) ==
    LET n == Len(profs)
        hdr == LE(1, 4) \o LE(48, 4)
               \o LE(0, 4) \o LE(n, 4) \o LE(48, 4)
               \o LE(IF n = 0 THEN 48 ELSE PktOff(profs, n) + Stride(profs[n]), 4)
               \o LE(7, 4) \o <<0, 0, 0, 0>>
               \o LE(1001, 4) \o LE(1, 4) \o LE(1000 + n, 4) \o LE(n, 4)
    IN  V3Packets(Put(m, a, hdr), a, profs, 1)
\* The kernel's last store into a slot: the status word.
SetStatus(v, m, a, status) ==
    CASE v \in VariantA -> PutU64(m, a + V1_Status, status)
      [] v \in VariantB -> PutU32(m, a + V2_Status, status)
      [] v \in VariantC -> PutU32(m, a + B_Hdr + BH_BlockStatus, status)
\* Upper halves of the addresses the ring may be mapped at.
MapHis == {32570, 32512}

\* ------------------------------------------------------------------- state
VARIABLES
    variant,    \* the header type chosen for the negotiated ABI version
    mapHi,      \* upper half of the address the ring is mapped at
    mem,        \* the ring region shared with the kernel, byte by byte
    h,          \* the header view: an address (A, B) or the wrapper (C)
    op,         \* the operation called last
    args,       \* its arguments
    ret,        \* its result
    calls,      \* calls of next() on this view since the initial state
    lastUsed,   \* the cursor of this view before its last next()
    advanced,   \* calls of next() on this view that returned true
    exhausted,  \* next() has returned false on this view
    released,   \* clearStatus() has been called on this view
    kpc,        \* kernel: "idle", "writing" (filling a slot), "written"
    kslot,      \* kernel: the slot it fills next
    cpc,        \* consumer loop: "poll", "read", "release"
    cslot       \* consumer loop: the slot it looks at

vars == <<variant, mapHi, mem, h, op, args, ret, calls, lastUsed, advanced, exhausted,
          released,
          kpc, kslot, cpc, cslot>>
view == <<variant, mapHi, h, calls, lastUsed, advanced, exhausted, released>>
ring == <<kpc, kslot, cpc, cslot>>

NoArgs == [addVLANHeader |-> FALSE]
NoRet == [none |-> TRUE]
\* A result is recorded under the name of its Go type, so that results of
\* different types compare unequal instead of being incomparable.
RetInt(n) == [int |-> n]
RetBool(b) == [bool |-> b]

\* ------------------------------------------------- the header interface
getStatus(v, m, x) ==
    CASE v = "V1header" -> V1header_getStatus(m, x)
      [] v = "V2header" -> V2header_getStatus(m, x)
      [] v = "V3header" -> V3header_getStatus(m, x)
      [] v = "TpV1Hdr" -> TpV1Hdr_getStatus(m, x)
      [] v = "TpV2Hdr" -> TpV2Hdr_getStatus(m, x)
      [] v = "TpV3Hdr" -> TpV3Hdr_getStatus(m, x)
clearStatus(v, m, x) ==
    CASE v = "V1header" -> V1header_clearStatus(m, x)
      [] v = "V2header" -> V2header_clearStatus(m, x)
      [] v = "V3header" -> V3header_clearStatus(m, x)
      [] v = "TpV1Hdr" -> TpV1Hdr_clearStatus(m, x)
      [] v = "TpV2Hdr" -> TpV2Hdr_clearStatus(m, x)
      [] v = "TpV3Hdr" -> TpV3Hdr_clearStatus(m, x)
getTime(v, m, x) ==
    CASE v = "V1header" -> V1header_getTime(m, x)
      [] v = "V2header" -> V2header_getTime(m, x)
      [] v = "V3header" -> V3header_getTime(m, x)
      [] v = "TpV1Hdr" -> TpV1Hdr_getTime(m, x)
      [] v = "TpV2Hdr" -> TpV2Hdr_getTime(m, x)
      [] v = "TpV3Hdr" -> TpV3Hdr_getTime(m, x)
getData(v, m, x, hi, addVLANHeader) ==
    CASE v = "V1header" -> V1header_getData(m, x, addVLANHeader)
      [] v = "V2header" -> V2header_getData(m, x, addVLANHeader)
      [] v = "V3header" -> V3header_getData(m, x, addVLANHeader)
      [] v = "TpV1Hdr" -> TpV1Hdr_getData(m, x, addVLANHeader)
      [] v = "TpV2Hdr" -> TpV2Hdr_getData(m, x, addVLANHeader)
      [] v = "TpV3Hdr" -> TpV3Hdr_getData(m, x, hi, addVLANHeader)
getLength(v, m, x) ==
    CASE v = "V1header" -> V1header_getLength(m, x)
      [] v = "V2header" -> V2header_getLength(m, x)
      [] v = "V3header" -> V3header_getLength(m, x)
      [] v = "TpV1Hdr" -> TpV1Hdr_getLength(m, x)
      [] v = "TpV2Hdr" -> TpV2Hdr_getLength(m, x)
      [] v = "TpV3Hdr" -> TpV3Hdr_getLength(m, x)
getIfaceIndex(v, m, x) ==
    CASE v = "V1header" -> V1header_getIfaceIndex(m, x)
      [] v = "V2header" -> V2header_getIfaceIndex(m, x)
      [] v = "V3header" -> V3header_getIfaceIndex(m, x)
      [] v = "TpV1Hdr" -> TpV1Hdr_getIfaceIndex(m, x)
      [] v = "TpV2Hdr" -> TpV2Hdr_getIfaceIndex(m, x)
      [] v = "TpV3Hdr" -> TpV3Hdr_getIfaceIndex(m, x)
getVLAN(v, m, x, hi) ==
    CASE v = "V1header" -> V1header_getVLAN(m, x)
      [] v = "V2header" -> V2header_getVLAN(m, x)
      [] v = "V3header" -> V3header_getVLAN(m, x)
      [] v = "TpV1Hdr" -> TpV1Hdr_getVLAN(m, x)
      [] v = "TpV2Hdr" -> TpV2Hdr_getVLAN(m, x)
      [] v = "TpV3Hdr" -> TpV3Hdr_getVLAN(m, x, hi)
next(v, m, x) ==
    CASE v = "V1header" -> V1header_next(m, x)
      [] v = "V2header" -> V2header_next(m, x)
      [] v = "V3header" -> V3header_next(m, x)
      [] v = "TpV1Hdr" -> TpV1Hdr_next(m, x)
      [] v = "TpV2Hdr" -> TpV2Hdr_next(m, x)
      [] v = "TpV3Hdr" -> TpV3Hdr_next(m, x)
\* The view the ring loop builds over the slot at address a.
NewView(v, m, a) ==
    CASE v = "V3header" -> initV3Wrapper(m, a)
      [] v = "TpV3Hdr" -> TpV3Hdr_initV3Wrapper(m, a)
      [] OTHER -> a

\* Reading the view's fields under either spelling of the wrapper.
PacketOf(v, x) == IF v = "TpV3Hdr" THEN x.packet ELSE x.Packet
BlockOf(v, x) == IF v = "TpV3Hdr" THEN x.block ELSE x.Block
BlockhdrOf(v, x) == IF v = "TpV3Hdr" THEN x.blockhdr ELSE x.Blockhdr
\* The iteration cursor of a view; a single-frame header has none.
Cursor(v, x) == IF v \in VariantC THEN x.used ELSE 0
\* Every byte the accessors of the current packet may touch lies in the ring.
PacketInRing(v, m, x) ==
    v \in VariantC => PacketOf(v, x) + tpV3HdrSize + 20 <= Len(m)

\* --------------------------------------------- one view over one ready slot
InitFrameA(v) ==
    \E status \in {1, 17}, snaplen \in {4, 14}, tv \in {<<1000, 250>>, <<2000, 999999>>} :
        /\ mem = SetStatus(v, V1Frame(ZeroMem(FrameSize), 0, snaplen + 46, snaplen,
                                      tv[1], tv[2], 1), 0, status)
        /\ mapHi = 32570
InitFrameB(v) ==
    \E status \in {1, 17}, snaplen \in {4, 14}, tci \in {0, 2748, 12293} :
        /\ mem = SetStatus(v, V2Frame(ZeroMem(FrameSize), 0, snaplen + 46, snaplen,
                                      1000, 250000, tci, 1), 0, status)
        /\ mapHi = 32570
InitBlock(v) ==
    \E n \in 0..MaxPkts :
        \E profs \in [1..n -> PktProfiles] :
            /\ mem = SetStatus(v, V3Block(ZeroMem(BlockSize), 0, profs), 0, TpStatusUser)
            /\ mapHi \in (IF v = "TpV3Hdr" THEN MapHis ELSE {32570})
Init ==
    /\ variant \in Variants
    /\ \/ variant \in VariantA /\ InitFrameA(variant)
       \/ variant \in VariantB /\ InitFrameB(variant)
       \/ variant \in VariantC /\ InitBlock(variant)
    /\ h = NewView(variant, mem, 0)
    /\ op = "new" /\ args = NoArgs /\ ret = NoRet
    /\ calls = 0 /\ lastUsed = 0 /\ advanced = 0
    /\ exhausted = FALSE /\ released = FALSE
    /\ kpc = "idle" /\ kslot = 0 /\ cpc = "read" /\ cslot = 0

GetStatus ==
    /\ op' = "getStatus" /\ args' = NoArgs
    /\ ret' = RetInt(getStatus(variant, mem, h))
    /\ UNCHANGED <<view, mem, ring>>
ClearStatus ==
    /\ op' = "clearStatus" /\ args' = NoArgs /\ ret' = NoRet
    /\ mem' = clearStatus(variant, mem, h)
    /\ released' = TRUE
    /\ UNCHANGED <<variant, mapHi, h, calls, lastUsed, advanced, exhausted, ring>>
GetTime ==
    /\ op' = "getTime" /\ args' = NoArgs
    /\ ret' = getTime(variant, mem, h)
    /\ UNCHANGED <<view, mem, ring>>
GetData ==
    \E b \in BOOLEAN :
        /\ op' = "getData" /\ args' = [addVLANHeader |-> b]
        /\ ret' = getData(variant, mem, h, mapHi, b)
        /\ UNCHANGED <<view, mem, ring>>
GetLength ==
    /\ op' = "getLength" /\ args' = NoArgs
    /\ ret' = RetInt(getLength(variant, mem, h))
    /\ UNCHANGED <<view, mem, ring>>
GetIfaceIndex ==
    /\ op' = "getIfaceIndex" /\ args' = NoArgs
    /\ ret' = RetInt(getIfaceIndex(variant, mem, h))
    /\ UNCHANGED <<view, mem, ring>>
GetVLAN ==
    /\ op' = "getVLAN" /\ args' = NoArgs
    /\ ret' = RetInt(getVLAN(variant, mem, h, mapHi))
    /\ UNCHANGED <<view, mem, ring>>
DoNext ==
    /\ calls < MaxCalls
    /\ LET r == next(variant, mem, h)
       IN  /\ PacketInRing(variant, mem, r.h)
           /\ h' = r.h
           /\ ret' = RetBool(r.ret)
           /\ exhausted' = (exhausted \/ ~r.ret)
           /\ advanced' = advanced + (IF r.ret THEN 1 ELSE 0)
    /\ op' = "next" /\ args' = NoArgs
    /\ calls' = calls + 1
    /\ lastUsed' = Cursor(variant, h)
    /\ UNCHANGED <<variant, mapHi, mem, released, ring>>

Next ==
    \/ GetStatus \/ ClearStatus \/ GetTime \/ GetData \/ GetLength
    \/ GetIfaceIndex \/ GetVLAN \/ DoNext
Spec == Init /\ [][Next]_vars

\* --------------------------------- a view whose counter is about to wrap
\* The view after k calls of next().
RECURSIVE Advance(_, _, _, _)
Advance(v, m, x, k) == IF k = 0 THEN x ELSE Advance(v, m, next(v, m, x).h, k - 1)
\* The view over the block at address a after as many calls of next() as
\* bring the counter to u, u one of the last values before the wrap: the
\* first NumPkts calls bring the packet pointer to the block's last packet,
\* and every call after them returns false and only increments the counter.
LateView(v, m, a, u) ==
    [Advance(v, m, NewView(v, m, a), U32(m, a + B_Hdr + BH_NumPkts)) EXCEPT !.used = u]
\* Counter values to start from: 4294967295, the last before the wrap.
WrapStarts == {-1}
InitWrap ==
    /\ variant \in VariantC /\ InitBlock(variant)
    /\ \E u \in WrapStarts :
           /\ h = LateView(variant, mem, 0, u)
           /\ lastUsed = u - 1
    /\ op = "next" /\ args = NoArgs /\ ret = RetBool(FALSE)
    /\ calls = 0
    /\ LET n == U32(mem, B_Hdr + BH_NumPkts)
       IN  advanced = IF n >= 1 THEN n - 1 ELSE 0
    /\ exhausted = TRUE /\ released = FALSE
    /\ kpc = "idle" /\ kslot = 0 /\ cpc = "read" /\ cslot = 0
SpecWrap == InitWrap /\ [][Next]_vars

\* ------------------------------------- insertVlanHeader on its own inputs
\* The payload is a slice over a frame of the ring; the call is made once.
VlanTCIs == {0, 1, 2748, 12293, 65535, 68284}
InitVlan ==
    /\ variant = "V2header" /\ mapHi = 32570
    /\ \E k \in {1, 2} :
           mem = SetStatus("V2header",
                           V2Frame(ZeroMem(FrameSize), 0, MaxLen, MaxLen, 1000, 250000, 0, k),
                           0, TpStatusUser)
    /\ h = 0
    /\ op = "new" /\ ret = NoRet
    /\ \E n \in 0..MaxLen, t \in VlanTCIs, b \in BOOLEAN :
           args = [data |-> makeSlice(FrameMac, n), vlanTCI |-> t, addVLANHeader |-> b]
    /\ calls = 0 /\ lastUsed = 0 /\ advanced = 0
    /\ exhausted = FALSE /\ released = FALSE
    /\ kpc = "idle" /\ kslot = 0 /\ cpc = "read" /\ cslot = 0
InsertVlanHeader ==
    /\ op = "new"
    /\ op' = "insertVlanHeader"
    /\ ret' = insertVlanHeader(mem, args.data, args.vlanTCI, args.addVLANHeader)
    /\ UNCHANGED <<view, mem, args, ring>>
NextVlan == InsertVlanHeader
SpecVlan == InitVlan /\ [][NextVlan]_vars

\* ------------------------------------------- the kernel and the ring loop
\* The kernel fills the slots in ring order: it takes a slot whose status
\* word is zero, writes the packet data, and stores the ready bits last.  The
\* ring loop looks at the slots in the same order: it reads a slot through a
\* header view once the status says it is ready, advances until next()
\* returns false, releases the slot and moves on.
SlotAddr(v, s) == s * SlotSize(v)
Slots == 0..(NSlots - 1)
KernelStatus(v, m, a) ==
    CASE v \in VariantA -> U64(m, a + V1_Status)
      [] v \in VariantB -> U32(m, a + V2_Status)
      [] v \in VariantC -> U32(m, a + B_Hdr + BH_BlockStatus)
RingBlocks ==
    { << [status |-> 17, tci |-> 2748, snaplen |-> 14, next |-> 0] >>,
      << [status |-> 1,  tci |-> 0,    snaplen |-> 14, next |-> 88],
         [status |-> 17, tci |-> 2748, snaplen |-> 14, next |-> 0] >> }
\* What the kernel may write into a slot: the slot's bytes, status still zero.
FrameAData == { V1Frame(ZeroMem(FrameSize), 0, 60, 14, 1000, 250, 1) }
FrameBData ==
    { V2Frame(ZeroMem(FrameSize), 0, 60, 14, 1000, 250000, tci, 1) : tci \in {0, 2748} }
BlockData ==
    { V3Block(ZeroMem(BlockSize), 0, profs) : profs \in RingBlocks }
KernelData(v) ==
    CASE v \in VariantA -> FrameAData
      [] v \in VariantB -> FrameBData
      [] v \in VariantC -> BlockData
\* The ring after the kernel has written img over the slot at address a.
WriteSlot(m, a, img) ==
    [i \in 1..Len(m) |-> IF i - a \in 1..Len(img) THEN img[i - a] ELSE m[i]]
InitRing ==
    /\ variant \in Variants /\ mapHi = 32570
    /\ mem = ZeroMem(NSlots * SlotSize(variant))
    /\ h = NewView(variant, mem, 0)
    /\ op = "new" /\ args = NoArgs /\ ret = NoRet
    /\ calls = 0 /\ lastUsed = 0 /\ advanced = 0
    /\ exhausted = FALSE /\ released = FALSE
    /\ kpc = "idle" /\ kslot = 0 /\ cpc = "poll" /\ cslot = 0
KernelAcquire ==
    /\ kpc = "idle"
    /\ KernelStatus(variant, mem, SlotAddr(variant, kslot)) = 0
    /\ kpc' = "writing"
    /\ UNCHANGED <<view, mem, op, args, ret, kslot, cpc, cslot>>
KernelWrite ==
    /\ kpc = "writing"
    /\ \E img \in KernelData(variant) :
           mem' = WriteSlot(mem, SlotAddr(variant, kslot), img)
    /\ kpc' = "written"
    /\ UNCHANGED <<view, op, args, ret, kslot, cpc, cslot>>
KernelPublish ==
    /\ kpc = "written"
    /\ mem' = SetStatus(variant, mem, SlotAddr(variant, kslot), TpStatusUser)
    /\ kpc' = "idle"
    /\ kslot' = (kslot + 1) % NSlots
    /\ UNCHANGED <<view, op, args, ret, cpc, cslot>>
ConsumerPoll ==
    /\ cpc = "poll"
    /\ LET v0 == NewView(variant, mem, SlotAddr(variant, cslot))
           st == getStatus(variant, mem, v0)
       IN  /\ st % 2 = TpStatusUser
           /\ h' = v0
           /\ ret' = RetInt(st)
    /\ op' = "getStatus" /\ args' = NoArgs
    /\ calls' = 0 /\ lastUsed' = 0 /\ advanced' = 0
    /\ exhausted' = FALSE /\ released' = FALSE
    /\ cpc' = "read"
    /\ UNCHANGED <<variant, mapHi, mem, kpc, kslot, cslot>>
ConsumerRead ==
    /\ cpc = "read"
    /\ op' = "getData" /\ args' = [addVLANHeader |-> TRUE]
    /\ ret' = getData(variant, mem, h, mapHi, TRUE)
    /\ UNCHANGED <<view, mem, ring>>
ConsumerNext ==
    /\ cpc = "read"
    /\ LET r == next(variant, mem, h)
       IN  /\ h' = r.h
           /\ ret' = RetBool(r.ret)
           /\ exhausted' = ~r.ret
           /\ advanced' = advanced + (IF r.ret THEN 1 ELSE 0)
           /\ cpc' = IF r.ret THEN "read" ELSE "release"
    /\ op' = "next" /\ args' = NoArgs
    /\ calls' = calls + 1
    /\ lastUsed' = Cursor(variant, h)
    /\ UNCHANGED <<variant, mapHi, mem, released, kpc, kslot, cslot>>
ConsumerRelease ==
    /\ cpc = "release"
    /\ mem' = clearStatus(variant, mem, h)
    /\ op' = "clearStatus" /\ args' = NoArgs /\ ret' = NoRet
    /\ released' = TRUE
    /\ cpc' = "poll"
    /\ cslot' = (cslot + 1) % NSlots
    /\ UNCHANGED <<variant, mapHi, h, calls, lastUsed, advanced, exhausted, kpc, kslot>>
NextRing ==
    \/ KernelAcquire \/ KernelWrite \/ KernelPublish
    \/ ConsumerPoll \/ ConsumerRead \/ ConsumerNext \/ ConsumerRelease
SpecRing == InitRing /\ [][NextRing]_vars

\* ------------------------------------------------ tpAlign on its own inputs
InitAlign ==
    /\ variant = "V1header" /\ mapHi = 32570
    /\ mem = ZeroMem(FrameSize) /\ h = 0
    /\ op = "new" /\ ret = NoRet
    /\ \E x \in 0..MaxAlignArg : args = [x |-> x]
    /\ calls = 0 /\ lastUsed = 0 /\ advanced = 0
    /\ exhausted = FALSE /\ released = FALSE
    /\ kpc = "idle" /\ kslot = 0 /\ cpc = "read" /\ cslot = 0
TpAlign ==
    /\ op = "new"
    /\ op' = "tpAlign"
    /\ ret' = RetInt(tpAlign(args.x))
    /\ UNCHANGED <<view, mem, args, ring>>
NextAlign == TpAlign
SpecAlign == InitAlign /\ [][NextAlign]_vars

\* ------------------------------- getTime of a variant A and a variant B frame
\* One instant, S seconds and U microseconds, as the kernel writes it into a
\* variant A frame (Sec, Usec) at address 0 and into a variant B frame
\* (Sec, Nsec = U * 1000) at address FrameSize.
TimeSecs == {0, 1, 1000, 86399, 2000000000}
TimeUsecs == {0, 1, 250, 999999, 1000000, 1500000, 2147483}
\* The variant B type of the build that v belongs to.
PairB(v) == IF v = "V1header" THEN "V2header" ELSE "TpV2Hdr"
InitTime ==
    /\ variant \in VariantA /\ mapHi = 32570
    /\ \E S \in TimeSecs, U \in TimeUsecs :
           /\ args = [sec |-> S, usec |-> U]
           /\ mem = SetStatus("V2header",
                        V2Frame(SetStatus("V1header",
                                    V1Frame(ZeroMem(2 * FrameSize), 0, 60, 14, S, U, 1),
                                    0, TpStatusUser),
                                FrameSize, 60, 14, S, U * 1000, 0, 2),
                        FrameSize, TpStatusUser)
    /\ h = 0
    /\ op = "new" /\ ret = NoRet
    /\ calls = 0 /\ lastUsed = 0 /\ advanced = 0
    /\ exhausted = FALSE /\ released = FALSE
    /\ kpc = "idle" /\ kslot = 0 /\ cpc = "read" /\ cslot = 0
GetTimes ==
    /\ op = "new"
    /\ op' = "getTime"
    /\ ret' = [a |-> getTime(variant, mem, 0), b |-> getTime(PairB(variant), mem, FrameSize)]
    /\ UNCHANGED <<view, mem, args, ring>>
NextTime == GetTimes
SpecTime == InitTime /\ [][NextTime]_vars


\* ------------------------------------------------------------------ claims
IsA == variant \in VariantA
IsB == variant \in VariantB
IsC == variant \in VariantC
\* The block's declared packet count, and the current packet's address.
NumPkts == U32(mem, BlockhdrOf(variant, h) + BH_NumPkts)
CurPacket == PacketOf(variant, h)
Max(a, b) == IF a >= b THEN a ELSE b
\* The addresses of the status word of the slot at address a.
StatusWord(v, a) ==
    CASE v \in VariantA -> a..(a + 7)
      [] v \in VariantB -> a..(a + 3)
      [] v \in VariantC -> (a + B_Hdr + BH_BlockStatus)..(a + B_Hdr + BH_BlockStatus + 3)

\* C1: on a fresh variant C view of a block declaring N >= 1 packets, each of
\* the first N-1 calls of next() returns true and the N-th returns false.
C1_IterationCount ==
    (IsC /\ op = "next" /\ NumPkts >= 1 /\ calls <= NumPkts)
        => (ret = RetBool(calls < NumPkts))
C1_Witness ==
    IsC /\ op = "next" /\ NumPkts = 3 /\ calls = 3 /\ ret = RetBool(FALSE)

\* C2 as stated: for every packet count and any sequence of next() and
\* accessor calls, used never decreases and never exceeds NumPkts.
C2_Original ==
    IsC => (h.used >= lastUsed /\ h.used <= NumPkts)
\* C2 amended: as long as next() is not called again after it has returned
\* false, used never decreases and never exceeds max(NumPkts, 1); the calls
\* other than next() leave the cursor alone.
C2_CursorBounded ==
    /\ [][(IsC /\ ~exhausted) => (h'.used >= h.used /\ h'.used <= Max(NumPkts, 1))]_vars
    /\ [][(IsC /\ op' # "next") => h'.used = h.used]_vars
C2_Witness ==
    IsC /\ NumPkts = 3 /\ h.used = 3 /\ calls = 3 /\ exhausted /\ op = "getLength"

\* C3: once clearStatus() has been called the status word reads zero, right
\* away and after every later operation of the view.
C3_ReleaseTerminal ==
    released => /\ getStatus(variant, mem, h) = 0
                /\ (op = "getStatus" => ret = RetInt(0))
C3_Witness ==
    released /\ op = "getStatus" /\ ret = RetInt(0) /\ calls >= 2

\* C5: clearStatus() stores to the status word of the slot and to nothing
\* else; every other operation leaves the ring as it was; only next() changes
\* the view, and of the view only the cursor and the packet pointer.
C5_WriteFootprint ==
    [][/\ (op' # "clearStatus" => mem' = mem)
       /\ (op' = "clearStatus" =>
              /\ Len(mem') = Len(mem)
              /\ \A a \in (0..(Len(mem) - 1)) \ StatusWord(variant, 0) :
                     Byte(mem', a) = Byte(mem, a))
       /\ (op' # "next" => h' = h)
       /\ (op' = "next" /\ IsC =>
              /\ BlockOf(variant, h') = BlockOf(variant, h)
              /\ BlockhdrOf(variant, h') = BlockhdrOf(variant, h))]_vars
C5_Witness ==
    IsB /\ op = "clearStatus" /\ getStatus(variant, mem, h) = 0
        /\ getLength(variant, mem, h) # 0

\* C6: on a variant A or B header every call of next() returns false and
\* leaves the view and the ring unchanged.
C6_SingleFrameNext ==
    /\ []((IsA \/ IsB) /\ op = "next" => ret = RetBool(FALSE))
    /\ [][((IsA \/ IsB) /\ op' = "next") => (h' = h /\ mem' = mem)]_vars
C6_Witness ==
    IsB /\ op = "next" /\ calls = 2 /\ released

\* C7 as stated: getVLAN() of a variant B header is -1 when status bit 0x10
\* is unset and the header's VLAN TCI & 0xFFF otherwise.
C7_VariantBVlan ==
    (IsB /\ op = "getVLAN") =>
        ret = RetInt(IF (getStatus(variant, mem, h) \div StatusVlanValid) % 2 = 0 THEN -1
                  ELSE U16(mem, h + V2_VlanTci) % 4096)

\* C8 as stated: getVLAN() is -1 on variant A; on variant C it is -1 when the
\* current packet's status has bit 0x10 unset and otherwise the current
\* packet's extension-record VLAN TCI & 0xFFF.
C8_VariantACVlan ==
    /\ (IsA /\ op = "getVLAN") => ret = RetInt(-1)
    /\ (IsC /\ op = "getVLAN") =>
           /\ ret.int \in -1..4095
           /\ ret = RetInt(IF (U32(mem, CurPacket + P_Tp_status) \div StatusVlanValid) % 2 = 0
                        THEN -1
                        ELSE U32(mem, CurPacket + P_Tp_hv1 + HV1_TpVlanTci) % 4096)

\* The kernel is filling slot s; the ring loop reads slot s or holds a view
\* of it that it has not released.
KernelBusy(s) == kpc \in {"writing", "written"} /\ kslot = s
ConsumerHolds(s) == cpc \in {"read", "release"} /\ cslot = s

\* C4: the kernel never fills a slot while the ring loop reads it or holds an
\* unreleased view of it, so the two never store into one slot at once.
C4_MutualExclusion ==
    \A s \in Slots : ~(KernelBusy(s) /\ ConsumerHolds(s))
C4_Witness ==
    /\ cpc = "read" /\ cslot = 1 /\ op = "getData"
    /\ kpc = "writing" /\ kslot = 0
    /\ IsC /\ calls = 1

\* C9: with a payload of at least 12 bytes, a non-zero tci and addVLANHeader
\* set, insertVlanHeader returns len+4 bytes: the payload's first 12, then
\* 0x81, 0x00, tci's high byte, tci's low byte, then the payload from byte 12
\* on; the payload itself is left as it was.
C9_VlanShape ==
    /\ []((op = "insertVlanHeader" /\ args.data.Len >= 12 /\ args.vlanTCI # 0
              /\ args.addVLANHeader) =>
            /\ ~IsPanic(ret)
            /\ ret.Len = args.data.Len + 4
            /\ LET in == Elems(mem, args.data)
                   out == Elems(mem, ret)
               IN  /\ Len(out) = Len(in) + 4
                   /\ SubSeq(out, 1, 12) = SubSeq(in, 1, 12)
                   /\ SubSeq(out, 13, 16) = <<129, 0, (args.vlanTCI \div 256) % 256,
                                              args.vlanTCI % 256>>
                   /\ SubSeq(out, 17, Len(out)) = SubSeq(in, 13, Len(in)))
    /\ [][op' = "insertVlanHeader" => (mem' = mem /\ args' = args)]_vars
C9_Witness ==
    /\ op = "insertVlanHeader" /\ args.vlanTCI = 2748 /\ args.addVLANHeader
    /\ args.data.Len = 14 /\ ret.Len = 18
    /\ SubSeq(Elems(mem, ret), 13, 16) = <<129, 0, 10, 188>>

\* C10: with tci = 0 or addVLANHeader unset, insertVlanHeader returns the
\* slice it was given: same address, same length, same bytes, whatever the
\* payload's length.
C10_VlanNoOp ==
    (op = "insertVlanHeader" /\ (args.vlanTCI = 0 \/ ~args.addVLANHeader)) =>
        /\ ret = args.data
        /\ ret.Data = args.data.Data /\ ret.Len = args.data.Len
        /\ Elems(mem, ret) = Elems(mem, args.data)
C10_Witness ==
    /\ op = "insertVlanHeader" /\ args.vlanTCI = 0 /\ args.addVLANHeader
    /\ args.data.Len = 5 /\ ret = args.data

\* The payload bytes of the header viewed: snaplen bytes of the ring from the
\* header's address plus its Mac field.
PayloadBytes ==
    CASE IsA -> makeSlice(h + U16(mem, h + V1_Mac), U32(mem, h + V1_Snaplen))
      [] IsB -> makeSlice(h + U16(mem, h + V2_Mac), U32(mem, h + V2_Snaplen))
      [] IsC -> makeSlice(CurPacket + U16(mem, CurPacket + P_Tp_mac),
                          U32(mem, CurPacket + P_Tp_snaplen))
\* The VLAN TCI stored in the header viewed (variant A stores none).
HeaderTCI ==
    CASE IsA -> 0
      [] IsB -> U16(mem, h + V2_VlanTci)
      [] IsC -> U32(mem, CurPacket + P_Tp_hv1 + HV1_TpVlanTci)

\* C11 as stated: getData(opts) of variants B and C is the payload bytes
\* passed through insertVlanHeader with the TCI stored in the header and
\* opts.addVLANHeader; of variant A it is the payload bytes, never tagged.
C11_PayloadAccessor ==
    op = "getData" =>
        IF IsA THEN ret = PayloadBytes
        ELSE ret = insertVlanHeader(mem, PayloadBytes, HeaderTCI, args.addVLANHeader)

\* The size of the kernel header structure a view overlays on the ring.
KernelHeaderSize ==
    CASE variant = "V1header" -> sizeofV1Hdr
      [] variant = "V2header" -> sizeofV2Hdr
      [] variant = "V3header" -> sizeofTpPacket
      [] variant = "TpV1Hdr" -> tpV1HdrSize
      [] variant = "TpV2Hdr" -> tpV2HdrSize
      [] variant = "TpV3Hdr" -> tpV3HdrSize
\* The address of the header currently viewed.
HeaderAddr == IF IsC THEN CurPacket ELSE h

\* C12 as stated: getIfaceIndex() is the Ifindex field of the address record
\* at tpAlign(size of the kernel header) past the header currently viewed.
C12_IfaceIndexLocation ==
    op = "getIfaceIndex" =>
        ret = RetInt(I32(mem, HeaderAddr + tpAlign(KernelHeaderSize) + LL_Ifindex))

\* C13: tpAlign(x) is the smallest multiple of the alignment constant that
\* is >= x, so tpAlign(x) - x is in 0..15 and tpAlign is idempotent; with the
\* constant 16, tpAlign(0) = 0, tpAlign(1) = 16, tpAlign(16) = 16 and
\* tpAlign(17) = 32.
C13_AlignSmallestMultiple ==
    op = "tpAlign" =>
        LET x == args.x
            r == ret.int
        IN  /\ r % tpacketAlignment = 0 /\ r >= x
            /\ \A k \in 0..(r - 1) : ~(k % tpacketAlignment = 0 /\ k >= x)
            /\ r - x \in 0..(tpacketAlignment - 1)
            /\ tpAlign(r) = r
            /\ (x = 0 => r = 0) /\ (x = 1 => r = 16)
            /\ (x = 16 => r = 16) /\ (x = 17 => r = 32)
C13_Witness ==
    op = "tpAlign" /\ args.x = 17 /\ ret = RetInt(32)

\* C14: a variant A header with Sec = S, Usec = U and a variant B header with
\* Sec = S, Nsec = U * 1000 give the same instant from getTime(): S seconds
\* plus U * 1000 nanoseconds.
C14_TimestampEquivalence ==
    op = "getTime" =>
        /\ ret.a = ret.b
        /\ ret.a.nsec \in 0..999999999
        /\ (ret.a.sec - args.sec) * 1000000000 + ret.a.nsec = args.usec * 1000
C14_Witness ==
    /\ op = "getTime" /\ args.sec = 86399 /\ args.usec = 1500000
    /\ ret.a = [sec |-> 86400, nsec |-> 500000000] /\ ret.b = ret.a

\* The distance next() is to move by: the current packet's TpNextOffset when
\* that is non-zero, tpAlign(Tp_snaplen + Tp_mac) otherwise.
NextStride ==
    LET off == U32(mem, CurPacket + P_TpNextOffset)
    IN  IF off # 0 THEN off
        ELSE tpAlign(U32(mem, CurPacket + P_Tp_snaplen) + U16(mem, CurPacket + P_Tp_mac))

\* C15: when next() of a variant C view returns true the new current-packet
\* address is the previous one plus the previous packet's stride; when it
\* returns false the address is left as it was; no operation changes the
\* block and block-header pointers.
C15_NextPacketAddress ==
    /\ [][(IsC /\ op' = "next") =>
              /\ (ret' = RetBool(TRUE) => PacketOf(variant, h') = CurPacket + NextStride)
              /\ (ret' = RetBool(FALSE) => PacketOf(variant, h') = CurPacket)]_vars
    /\ [][IsC => /\ BlockOf(variant, h') = BlockOf(variant, h)
                 /\ BlockhdrOf(variant, h') = BlockhdrOf(variant, h)]_vars
C15_Witness ==
    /\ IsC /\ op = "next" /\ ret = RetBool(TRUE) /\ calls = 2 /\ NumPkts = 3
    /\ CurPacket = 48 + 88 + 96

\* C16 as stated: getData(opts) of a variant B or C header returns a byte
\* sequence and never fails, whatever the captured length (under 12
\* included), the VLAN TCI and addVLANHeader.
C16_PayloadTotal ==
    ((IsB \/ IsC) /\ op = "getData") => ~IsPanic(ret)

\* C17 as stated: on a variant C view, once next() has returned false every
\* later call of next() returns false, so next() returns true at most
\* max(NumPkts - 1, 0) times on one view (a call that returns false leaves the
\* packet pointer alone, C15).
C17_ExhaustionSticky ==
    IsC => /\ (op = "next" /\ exhausted) => ret = RetBool(FALSE)
           /\ advanced <= Max(NumPkts - 1, 0)

\* C18 as stated: with addVLANHeader set, getData() returns a payload with a
\* synthesized tag (captured length + 4 bytes, built off the ring) only if
\* getVLAN() on the same header and packet is not -1.
C18_VlanConsistent ==
    (op = "getData" /\ args.addVLANHeader /\ ~IsPanic(ret)
        /\ ret.Data = HeapData /\ ret.Len = PayloadBytes.Len + VlanHlen)
    => getVLAN(variant, mem, h, mapHi) # -1
====
